---- MODULE Spec2Model ----
(***************************************************************************)
(* Generation-swap coordination of the Fastify/Vite front server.          *)
(*                                                                         *)
(* server.ts holds two renditions of the server.  Lines 139-392 are the    *)
(* hold-queue rendition (restartPromise, pendingHttpRequests,              *)
(* pendingWsConnections, the HMR tunnel proxy): specification Spec, and    *)
(* FairSpec for its fault-free fair runs.  Lines 1-137 are the             *)
(* waterfall-counter rendition (swap on the 20th request): SpecW.          *)
(*                                                                         *)
(* A ViteDevServer object is a handle 1, 2, ... in creation order; a       *)
(* promise returned by restartVite is the index of the async body that     *)
(* settles it.  Every await of the source is a separate step.              *)
(***************************************************************************)
EXTENDS Integers, Sequences, FiniteSets, TLC

NULL == 0

\* Bounds of the model.
MaxArrivals == 3
MaxSwaps == 3
MaxPort == 2
MaxWArrivals == 22
MaxColdStarts == 1
MaxLoading == 1

\* `const waterfallRestartOn = 20`
waterfallRestartOn == 20

Reqs == 1..MaxArrivals
Conns == 1..MaxArrivals
SwapIds == 1..MaxSwaps
Ports == 1..MaxPort

VARIABLES
  activeVite,            \* server.ts:163
  activeHmrPort,         \* server.ts:164
  serverIdCounter,       \* server.ts:165
  restartPromise,        \* server.ts:168
  pendingHttpRequests,   \* server.ts:169
  pendingWsConnections,  \* server.ts:170
  serverBuildCache,      \* server.ts:173
  isFirstStart,          \* server.ts:176
  hasTriggeredRestart,   \* server.ts:266
  initialServerPromise,  \* server.ts:267
  swaps,                 \* the async bodies started at server.ts:195
  nSwaps,                \* how many of them were started
  servers,               \* the ViteDevServer objects created at server.ts:213
  nBuilds,               \* how many ssrLoadModule calls returned a build
  reqs,                  \* the onRequest hook invocations, server.ts:278
  conns,                 \* the upgrade handler invocations, server.ts:317
  collapsedCalls,        \* restartVite calls that returned at server.ts:193
  \* the waterfall-counter rendition, server.ts:1-137
  viteServer,            \* vite.server, server.ts:20
  buildCacheW,           \* serverBuildCache, server.ts:21
  idCounterW,            \* serverIdCounter, server.ts:22
  serverIdMap,           \* server.ts:23
  restarting,            \* server.ts:36
  waterfallCounter,      \* server.ts:64
  restarts,              \* the restartVite bodies started (server.ts:38)
  nRestarts,             \* how many of them were started
  wreqs,                 \* the onRequest hook invocations in flight, server.ts:67
  nArrivedW,             \* how many requests have come in
  nCold,                 \* how many of them were for the url "/"
  bindings               \* what the finished hooks attached (lines 92, 116, 121)

vars2 == <<activeVite, activeHmrPort, serverIdCounter, restartPromise,
           pendingHttpRequests, pendingWsConnections, serverBuildCache,
           isFirstStart, hasTriggeredRestart, initialServerPromise, swaps,
           nSwaps, servers, nBuilds, reqs, conns, collapsedCalls>>

varsW == <<viteServer, buildCacheW, idCounterW, serverIdMap, restarting,
           waterfallCounter, restarts, nRestarts, wreqs, nArrivedW, nCold,
           bindings>>

vars == <<vars2, varsW>>

-----------------------------------------------------------------------------
\* State after module evaluation and main(): nothing started, both listeners up.

IdleSwap ==
  [pc |-> "idle", oldServer |-> NULL, oldServerId |-> 0, oldHmrPort |-> NULL,
   hmrPort |-> NULL, newServer |-> NULL, activations |-> 0, closeThrew |-> FALSE]

NewReq ==
  [pc |-> "new", wasHeld |-> FALSE, heldSwap |-> NULL,
   heldActive |-> NULL, awaiting |-> NULL, server |-> NULL, build |-> NULL]

NewConn ==
  [pc |-> "new", wasHeld |-> FALSE, heldSwap |-> NULL, heldPort |-> NULL,
   client |-> "open", goneWhileHeld |-> FALSE, target |-> NULL,
   tsock |-> "none"]

Init2 ==
  /\ activeVite = NULL
  /\ activeHmrPort = NULL
  /\ serverIdCounter = 0
  /\ restartPromise = NULL
  /\ pendingHttpRequests = <<>>
  /\ pendingWsConnections = <<>>
  /\ serverBuildCache = [h \in SwapIds |-> NULL]
  /\ isFirstStart = TRUE
  /\ hasTriggeredRestart = FALSE
  /\ initialServerPromise = NULL
  /\ swaps = [s \in SwapIds |-> IdleSwap]
  /\ nSwaps = 0
  /\ servers = <<>>
  /\ nBuilds = 0
  /\ reqs = [r \in Reqs |-> NewReq]
  /\ conns = [c \in Conns |-> NewConn]
  /\ collapsedCalls = 0

RestartIds == 1..(MaxColdStarts + 1)
ServersW == 1..(MaxColdStarts + 2)

IdleRestart == [pc |-> "idle", newServer |-> NULL]

\* State after the module ran: the top-level `await restartVite()` (line 129)
\* created server #1 and loaded its build, and fastify listens.
InitW ==
  /\ viteServer = 1
  /\ buildCacheW = [h \in ServersW |-> h = 1]
  /\ idCounterW = 1
  /\ serverIdMap = <<1>>
  /\ restarting = NULL
  /\ waterfallCounter = 0
  /\ restarts = [k \in RestartIds |-> IdleRestart]
  /\ nRestarts = 0
  /\ wreqs = {}
  /\ nArrivedW = 0
  /\ nCold = 0
  /\ bindings = {}

Init == Init2 /\ InitW

\* How many requests and upgrade connections have come in so far.
Arrived ==
  Cardinality({r \in Reqs : reqs[r].pc # "new"})
    + Cardinality({c \in Conns : conns[c].pc # "new"})

-----------------------------------------------------------------------------
\* restartVite, server.ts:191-263

\* `if (restartPromise) return restartPromise;`
AlreadyRestarting_Never(rp) == FALSE

AlreadyRestarting(rp) == rp # NULL

\* The async body up to its first await: oldServer and oldServerId are read,
\* then it suspends in fs.rm (first start) or in getPort.
StartedSwap ==
  [IdleSwap EXCEPT !.pc = IF isFirstStart THEN "rmCache" ELSE "getPort",
                   !.oldServer = activeVite,
                   !.oldServerId = serverIdCounter,
                   !.oldHmrPort = activeHmrPort]

\* The settled state of the promise the body s returns.
PromiseState(s) ==
  CASE swaps[s].pc = "done" -> "resolved"
    [] swaps[s].pc = "failed" -> "rejected"
    [] OTHER -> "pending"

PortsInUse == {servers[h].hmrPort : h \in {k \in DOMAIN servers : servers[k].status # "closed"}}

\* fs.rm returned or threw (the catch is empty); isFirstStart = false; getPort() is called.
SwapRmDone(s) ==
  /\ swaps[s].pc = "rmCache"
  /\ isFirstStart' = FALSE
  /\ swaps' = [swaps EXCEPT ![s].pc = "getPort"]
  /\ UNCHANGED varsW
  /\ UNCHANGED <<activeVite, activeHmrPort, serverIdCounter, restartPromise,
                 pendingHttpRequests, pendingWsConnections, serverBuildCache,
                 hasTriggeredRestart, initialServerPromise, nSwaps, servers,
                 nBuilds, reqs, conns, collapsedCalls>>

\* SwapGetPort with the port published as soon as getPort resolves.
SwapGetPort_Early(s) ==
  /\ swaps[s].pc = "getPort"
  /\ \E p \in Ports \ PortsInUse :
       /\ swaps' = [swaps EXCEPT ![s].pc = "createServer", ![s].hmrPort = p]
       /\ activeHmrPort' = p
  /\ UNCHANGED varsW
  /\ UNCHANGED <<activeVite, serverIdCounter, restartPromise,
                 pendingHttpRequests, pendingWsConnections, serverBuildCache,
                 isFirstStart, hasTriggeredRestart, initialServerPromise,
                 nSwaps, servers, nBuilds, reqs, conns, collapsedCalls>>

\* getPort() resolved with a free port; createServer is called.
SwapGetPort(s) ==
  /\ swaps[s].pc = "getPort"
  /\ \E p \in Ports \ PortsInUse :
       swaps' = [swaps EXCEPT ![s].pc = "createServer", ![s].hmrPort = p]
  /\ UNCHANGED varsW
  /\ UNCHANGED <<activeVite, activeHmrPort, serverIdCounter, restartPromise,
                 pendingHttpRequests, pendingWsConnections, serverBuildCache,
                 isFirstStart, hasTriggeredRestart, initialServerPromise,
                 nSwaps, servers, nBuilds, reqs, conns, collapsedCalls>>

\* serverIdCounter++ at line 223, after createServer resolved.
NextServerId_Stuck(n) == IF n = 0 THEN 1 ELSE n

NextServerId(n) == n + 1

\* createServer resolved: lines 223-231 up to the await inside getServerBuild
\* (a new server is never in the cache, so ssrLoadModule is called).
SwapCreateServer(s) ==
  /\ swaps[s].pc = "createServer"
  /\ LET h == Len(servers) + 1
         id == NextServerId(serverIdCounter)
     IN /\ servers' = Append(servers, [id |-> id, hmrPort |-> swaps[s].hmrPort,
                                       status |-> "open"])
        /\ serverIdCounter' = id
        /\ activeVite' = h
        /\ activeHmrPort' = swaps[s].hmrPort
        /\ swaps' = [swaps EXCEPT ![s].pc = "loadBuild", ![s].newServer = h,
                                  ![s].activations = @ + 1]
  /\ UNCHANGED varsW
  /\ UNCHANGED <<restartPromise, pendingHttpRequests, pendingWsConnections,
                 serverBuildCache, isFirstStart, hasTriggeredRestart,
                 initialServerPromise, nSwaps, nBuilds, reqs, conns,
                 collapsedCalls>>

\* `request.viteServer = activeVite!` (line 302): the server a request binds to.
BoundServer_AtArrival(rq) == IF rq.wasHeld THEN rq.heldActive ELSE activeVite

BoundServer(rq) == activeVite

\* Lines 302-303 against the cache `cache`: attach the active server, then
\* getServerBuild(activeVite): a hit returns the build, a miss awaits
\* ssrLoadModule.  With activeVite null getServerBuild throws.
Bind(rq, cache) ==
  LET v == BoundServer(rq)
  IN IF v = NULL
       THEN [rq EXCEPT !.pc = "error"]
       ELSE IF cache[v] # NULL
              THEN [rq EXCEPT !.pc = "bound", !.server = v, !.build = cache[v]]
              ELSE [rq EXCEPT !.pc = "loading", !.server = v]

\* `const targetPort = activeHmrPort` (line 329).
TargetPort(cn) == activeHmrPort

\* Lines 329-339: no port: destroy the client socket; else net.connect to it
\* (the four socket handlers are registered right after).
Proxy_Unchecked(cn) ==
  [cn EXCEPT !.pc = "connecting", !.target = TargetPort(cn),
             !.tsock = "connecting"]

Proxy(cn) ==
  IF TargetPort(cn) = NULL
    THEN [cn EXCEPT !.pc = "closed", !.client = "destroyed"]
    ELSE [cn EXCEPT !.pc = "connecting", !.target = TargetPort(cn),
                    !.tsock = "connecting"]

\* The HTTP holds the flush resolves (lines 234-238).
FlushedHttp_InFlight(q) == {r \in Reqs : reqs[r].pc \in {"held", "bound"}}

FlushedHttp(q) == {q[i] : i \in DOMAIN q}

\* The connection holds the flush resolves (lines 241-245).
FlushedWs(q) == {q[i] : i \in DOMAIN q}

\* The requests whose `await ensureFirstServer()` waits on the promise of body s.
Awaiters(s) == {r \in Reqs : reqs[r].pc = "awaitFirst" /\ reqs[r].awaiting = s}

\* The body s threw: its promise rejects, and so does the hook of every
\* request awaiting it at line 299.
Rejected(s) ==
  [r \in Reqs |-> IF r \in Awaiters(s) THEN [reqs[r] EXCEPT !.pc = "error"]
                  ELSE reqs[r]]

\* getPort() or createServer() rejected: the body throws, its promise rejects.
\* Nothing after the throw runs, `restartPromise = null` (line 259) included.
SwapProvisionFail(s) ==
  /\ swaps[s].pc \in {"getPort", "createServer"}
  /\ swaps' = [swaps EXCEPT ![s].pc = "failed"]
  /\ reqs' = Rejected(s)
  /\ UNCHANGED varsW
  /\ UNCHANGED <<activeVite, activeHmrPort, serverIdCounter, restartPromise,
                 pendingHttpRequests, pendingWsConnections, serverBuildCache,
                 isFirstStart, hasTriggeredRestart, initialServerPromise,
                 nSwaps, servers, nBuilds, conns, collapsedCalls>>

\* ssrLoadModule rejected inside getServerBuild(newServer): the body throws.
SwapLoadBuildFail(s) ==
  /\ swaps[s].pc = "loadBuild"
  /\ swaps' = [swaps EXCEPT ![s].pc = "failed"]
  /\ reqs' = Rejected(s)
  /\ UNCHANGED varsW
  /\ UNCHANGED <<activeVite, activeHmrPort, serverIdCounter, restartPromise,
                 pendingHttpRequests, pendingWsConnections, serverBuildCache,
                 isFirstStart, hasTriggeredRestart, initialServerPromise,
                 nSwaps, servers, nBuilds, conns, collapsedCalls>>

\* `serverBuildCache.delete(oldServer)` (line 250).
Evicted_Kept(cache, old) == cache

Evicted(cache, old) == [cache EXCEPT ![old] = NULL]

\* ssrLoadModule resolved: the build is cached (line 187), both queues are
\* flushed (233-245), and either the old server's cache entry is deleted and
\* its close() awaited (248-252) or the body ends with restartPromise = null
\* (259) and its promise resolves.  The resolved continuations are promise
\* jobs: they run before the event loop takes any other event, each from its
\* line 295 (ensureFirstServer returns at 271, activeVite being set since
\* line 227; then the binding) or its line 326 (the proxying).
SwapLoadBuild(s) ==
  /\ swaps[s].pc = "loadBuild"
  /\ LET new == swaps[s].newServer
         old == swaps[s].oldServer
         relH == FlushedHttp(pendingHttpRequests)
         relW == FlushedWs(pendingWsConnections)
         ends == old = NULL
         cache == IF old # NULL
                    THEN Evicted([serverBuildCache EXCEPT ![new] = nBuilds + 1],
                                 old)
                    ELSE [serverBuildCache EXCEPT ![new] = nBuilds + 1]
     IN /\ nBuilds' = nBuilds + 1
        /\ serverBuildCache' = cache
        /\ pendingHttpRequests' = <<>>
        /\ pendingWsConnections' = <<>>
        /\ reqs' = [r \in Reqs |->
                      IF r \in relH \/ (ends /\ r \in Awaiters(s))
                        THEN Bind(reqs[r], cache) ELSE reqs[r]]
        /\ conns' = [c \in Conns |-> IF c \in relW THEN Proxy(conns[c])
                                     ELSE conns[c]]
        /\ IF ends
             THEN /\ swaps' = [swaps EXCEPT ![s].pc = "done"]
                  /\ restartPromise' = NULL
                  /\ UNCHANGED servers
             ELSE /\ servers' = [servers EXCEPT ![old].status = "closing"]
                  /\ swaps' = [swaps EXCEPT ![s].pc = "closing"]
                  /\ UNCHANGED restartPromise
  /\ UNCHANGED varsW
  /\ UNCHANGED <<activeVite, activeHmrPort, serverIdCounter, isFirstStart,
                 hasTriggeredRestart, initialServerPromise, nSwaps,
                 collapsedCalls>>

\* oldServer.close() resolved (threw = FALSE) or rejected (threw = TRUE, caught
\* and logged at 254-256); restartPromise = null at 259; the promise resolves.
SwapCloseSettled(s, threw) ==
  /\ swaps[s].pc = "closing"
  /\ swaps' = [swaps EXCEPT ![s].pc = "done", ![s].closeThrew = threw]
  /\ servers' = [servers EXCEPT ![swaps[s].oldServer].status =
                                   IF threw THEN "closeFailed" ELSE "closed"]
  /\ restartPromise' = NULL
  /\ reqs' = [r \in Reqs |-> IF r \in Awaiters(s)
                               THEN Bind(reqs[r], serverBuildCache) ELSE reqs[r]]
  /\ UNCHANGED varsW
  /\ UNCHANGED <<activeVite, activeHmrPort, serverIdCounter,
                 pendingHttpRequests, pendingWsConnections, serverBuildCache,
                 isFirstStart, hasTriggeredRestart, initialServerPromise,
                 nSwaps, nBuilds, conns, collapsedCalls>>

\* SwapCloseDone with the active reference cleared along with the old server.
SwapCloseDone_ClearsActive(s) ==
  /\ swaps[s].pc = "closing"
  /\ swaps' = [swaps EXCEPT ![s].pc = "done"]
  /\ servers' = [servers EXCEPT ![swaps[s].oldServer].status = "closed"]
  /\ restartPromise' = NULL
  /\ activeVite' = NULL
  /\ reqs' = [r \in Reqs |-> IF r \in Awaiters(s)
                               THEN Bind(reqs[r], serverBuildCache) ELSE reqs[r]]
  /\ UNCHANGED varsW
  /\ UNCHANGED <<activeHmrPort, serverIdCounter,
                 pendingHttpRequests, pendingWsConnections, serverBuildCache,
                 isFirstStart, hasTriggeredRestart, initialServerPromise,
                 nSwaps, nBuilds, conns, collapsedCalls>>

SwapCloseDone(s) == SwapCloseSettled(s, FALSE)

\* SwapCloseFail with the rejection of close() thrown out of the body.
SwapCloseFail_Thrown(s) ==
  /\ swaps[s].pc = "closing"
  /\ swaps' = [swaps EXCEPT ![s].pc = "failed", ![s].closeThrew = TRUE]
  /\ servers' = [servers EXCEPT ![swaps[s].oldServer].status = "closeFailed"]
  /\ reqs' = Rejected(s)
  /\ UNCHANGED varsW
  /\ UNCHANGED <<activeVite, activeHmrPort, serverIdCounter, restartPromise,
                 pendingHttpRequests, pendingWsConnections, serverBuildCache,
                 isFirstStart, hasTriggeredRestart, initialServerPromise,
                 nSwaps, nBuilds, conns, collapsedCalls>>

SwapCloseFail(s) == SwapCloseSettled(s, TRUE)

-----------------------------------------------------------------------------
\* The onRequest hook, server.ts:278-306, and what serves the request after it.

\* `request.url.includes("env.mjs") && !hasTriggeredRestart` (line 280).
TriggerFires_Always(env, fired) == env

TriggerFires(env, fired) == env /\ ~fired

\* A request enters the hook.  env: its url includes "env.mjs".  Lines 280-296:
\* the trigger fires once; restartVite() starts a body or returns the promise
\* in flight; with restartPromise set the request parks its resolver.
\* Otherwise (restartPromise null, so the trigger did not fire) it goes on to
\* ensureFirstServer (270-276) and the binding (302-303).
Arrive(r, env) ==
  /\ reqs[r].pc = "new"
  /\ \A q \in Reqs : q < r => reqs[q].pc # "new"
  /\ Arrived < MaxArrivals
  /\ LET trig  == TriggerFires(env, hasTriggeredRestart)
         coll  == trig /\ AlreadyRestarting(restartPromise)
         rp    == IF trig /\ ~coll THEN nSwaps + 1 ELSE restartPromise
         hold  == rp # NULL
         lazy  == ~hold /\ activeVite = NULL /\ initialServerPromise = NULL
         start == (trig /\ ~coll) \/ lazy
         isp   == IF lazy THEN nSwaps + 1 ELSE initialServerPromise
         rq    == reqs[r]
     IN /\ start => nSwaps < MaxSwaps
        /\ hasTriggeredRestart' = (hasTriggeredRestart \/ trig)
        /\ nSwaps' = IF start THEN nSwaps + 1 ELSE nSwaps
        /\ swaps' = IF start THEN [swaps EXCEPT ![nSwaps + 1] = StartedSwap]
                    ELSE swaps
        /\ restartPromise' = IF start THEN nSwaps + 1 ELSE restartPromise
        /\ collapsedCalls' = IF coll THEN collapsedCalls + 1 ELSE collapsedCalls
        /\ initialServerPromise' = isp
        /\ pendingHttpRequests' =
             IF hold THEN Append(pendingHttpRequests, r) ELSE pendingHttpRequests
        /\ reqs' = [reqs EXCEPT ![r] =
             IF hold
               THEN [rq EXCEPT !.pc = "held", !.wasHeld = TRUE, !.heldSwap = rp,
                               !.heldActive = activeVite]
               ELSE IF activeVite # NULL
                      THEN Bind(rq, serverBuildCache)
                      ELSE IF PromiseState(isp) = "pending" \/ lazy
                             THEN [rq EXCEPT !.pc = "awaitFirst", !.awaiting = isp]
                             ELSE IF PromiseState(isp) = "resolved"
                                    THEN Bind(rq, serverBuildCache)
                                    ELSE [rq EXCEPT !.pc = "error"]]
  /\ UNCHANGED varsW
  /\ UNCHANGED <<activeVite, activeHmrPort, serverIdCounter,
                 pendingWsConnections, serverBuildCache, isFirstStart, servers,
                 nBuilds, conns>>

\* getServerBuild's cache miss for a request (lines 184-188): ssrLoadModule
\* resolved, the build is stored and returned.
RequestLoadDone(r) ==
  /\ reqs[r].pc = "loading"
  /\ nBuilds' = nBuilds + 1
  /\ serverBuildCache' = [serverBuildCache EXCEPT ![reqs[r].server] = nBuilds + 1]
  /\ reqs' = [reqs EXCEPT ![r].pc = "bound", ![r].build = nBuilds + 1]
  /\ UNCHANGED varsW
  /\ UNCHANGED <<activeVite, activeHmrPort, serverIdCounter, restartPromise,
                 pendingHttpRequests, pendingWsConnections, isFirstStart,
                 hasTriggeredRestart, initialServerPromise, swaps, nSwaps,
                 servers, collapsedCalls, conns>>

\* The plugin's hook and route (part_000:21-59) served the request with the
\* server and build attached to it, and the response was sent.
Finish(r) ==
  /\ reqs[r].pc = "bound"
  /\ reqs' = [reqs EXCEPT ![r].pc = "finished"]
  /\ UNCHANGED varsW
  /\ UNCHANGED <<activeVite, activeHmrPort, serverIdCounter, restartPromise,
                 pendingHttpRequests, pendingWsConnections, serverBuildCache,
                 isFirstStart, hasTriggeredRestart, initialServerPromise,
                 swaps, nSwaps, servers, nBuilds, collapsedCalls, conns>>

\* What follows the hook's last await for request r.
Serve(r) == IF reqs[r].pc = "loading" THEN RequestLoadDone(r) ELSE Finish(r)

-----------------------------------------------------------------------------
\* The HMR proxy's upgrade handler, server.ts:317-375.

\* An upgrade request arrives: held while restartPromise is set (321-327),
\* proxied at once otherwise.
Upgrade(c) ==
  /\ conns[c].pc = "new"
  /\ \A d \in Conns : d < c => conns[d].pc # "new"
  /\ Arrived < MaxArrivals
  /\ IF restartPromise # NULL
       THEN /\ pendingWsConnections' = Append(pendingWsConnections, c)
            /\ conns' = [conns EXCEPT ![c] =
                           [@ EXCEPT !.pc = "held", !.wasHeld = TRUE,
                                     !.heldSwap = restartPromise,
                                     !.heldPort = activeHmrPort]]
       ELSE /\ conns' = [conns EXCEPT ![c] = Proxy(@)]
            /\ UNCHANGED pendingWsConnections
  /\ UNCHANGED varsW
  /\ UNCHANGED <<activeVite, activeHmrPort, serverIdCounter, restartPromise,
                 pendingHttpRequests, serverBuildCache, isFirstStart,
                 hasTriggeredRestart, initialServerPromise, swaps, nSwaps,
                 servers, nBuilds, reqs, collapsedCalls>>

\* The client of a held connection goes away.  No handler is registered on
\* the socket before line 358, and nothing edits pendingWsConnections but the
\* flush: the entry stays queued.
ClientGoneWhileHeld(c) ==
  /\ conns[c].pc = "held"
  /\ conns[c].client = "open"
  /\ conns' = [conns EXCEPT ![c].client = "gone", ![c].goneWhileHeld = TRUE]
  /\ UNCHANGED varsW
  /\ UNCHANGED <<activeVite, activeHmrPort, serverIdCounter, restartPromise,
                 pendingHttpRequests, pendingWsConnections, serverBuildCache,
                 isFirstStart, hasTriggeredRestart, initialServerPromise,
                 swaps, nSwaps, servers, nBuilds, reqs, collapsedCalls>>

\* net.connect's callback (339-356): handshake replayed, the sockets piped.
ConnectOk(c) ==
  /\ conns[c].pc = "connecting"
  /\ conns' = [conns EXCEPT ![c].pc = "piping", ![c].tsock = "open"]
  /\ UNCHANGED varsW
  /\ UNCHANGED <<activeVite, activeHmrPort, serverIdCounter, restartPromise,
                 pendingHttpRequests, pendingWsConnections, serverBuildCache,
                 isFirstStart, hasTriggeredRestart, initialServerPromise,
                 swaps, nSwaps, servers, nBuilds, reqs, collapsedCalls>>

\* targetSocket 'error' (a refused connect, a reset) or 'close' (358-361,
\* 372-374): socket.destroy().
TargetDown(c) ==
  /\ conns[c].pc \in {"connecting", "piping"}
  /\ conns' = [conns EXCEPT ![c].pc = "closed", ![c].tsock = "destroyed",
                            ![c].client = "destroyed"]
  /\ UNCHANGED varsW
  /\ UNCHANGED <<activeVite, activeHmrPort, serverIdCounter, restartPromise,
                 pendingHttpRequests, pendingWsConnections, serverBuildCache,
                 isFirstStart, hasTriggeredRestart, initialServerPromise,
                 swaps, nSwaps, servers, nBuilds, reqs, collapsedCalls>>

\* client socket 'error' or 'close' once the handlers are on (363-370):
\* targetSocket.destroy().
ClientDown(c) ==
  /\ conns[c].pc \in {"connecting", "piping"}
  /\ conns[c].client = "open"
  /\ conns' = [conns EXCEPT ![c].pc = "closed", ![c].tsock = "destroyed",
                            ![c].client = "gone"]
  /\ UNCHANGED varsW
  /\ UNCHANGED <<activeVite, activeHmrPort, serverIdCounter, restartPromise,
                 pendingHttpRequests, pendingWsConnections, serverBuildCache,
                 isFirstStart, hasTriggeredRestart, initialServerPromise,
                 swaps, nSwaps, servers, nBuilds, reqs, collapsedCalls>>

-----------------------------------------------------------------------------
\* The hold-queue rendition.

SwapStep ==
  \/ \E s \in SwapIds : SwapRmDone(s)
  \/ \E s \in SwapIds : SwapGetPort(s)
  \/ \E s \in SwapIds : SwapCreateServer(s)
  \/ \E s \in SwapIds : SwapLoadBuild(s)
  \/ \E s \in SwapIds : SwapCloseDone(s)

SwapFault ==
  \/ \E s \in SwapIds : SwapProvisionFail(s)
  \/ \E s \in SwapIds : SwapLoadBuildFail(s)
  \/ \E s \in SwapIds : SwapCloseFail(s)

RequestStep == \E r \in Reqs : Serve(r)

ConnStep ==
  \/ \E c \in Conns : ConnectOk(c)
  \/ \E c \in Conns : TargetDown(c)

Arrivals ==
  \/ \E r \in Reqs, env \in BOOLEAN : Arrive(r, env)
  \/ \E c \in Conns : Upgrade(c)
  \/ \E c \in Conns : ClientGoneWhileHeld(c)
  \/ \E c \in Conns : ClientDown(c)

Next == SwapStep \/ SwapFault \/ RequestStep \/ ConnStep \/ Arrivals

Spec == Init /\ [][Next]_vars

\* Fault-free runs: provisioning, loading and teardown return without error,
\* and every continuation the event loop has made runnable is run.
NextOk == SwapStep \/ RequestStep \/ ConnStep \/ Arrivals

FairSpec ==
  /\ Init
  /\ [][NextOk]_vars
  /\ WF_vars(SwapStep)
  /\ WF_vars(RequestStep)

-----------------------------------------------------------------------------
\* The waterfall-counter rendition, server.ts:1-137.  buildCacheW[h] says
\* whether serverBuildCache has an entry for server h.  A hook that has
\* attached a server and a build leaves wreqs and is recorded in bindings by
\* its kind ("below", "nth", "later" by its waterfall position, or "root"),
\* the id of the server attached, whether that is the server that was active
\* when the request came in, and whether the restart it met was unsettled.

\* The settled state of the promise the restartVite body k returns.
PromiseStateW(k) ==
  CASE restarts[k].pc = "done" -> "resolved"
    [] restarts[k].pc = "failed" -> "rejected"
    [] OTHER -> "pending"

Kind(rq) ==
  IF rq.root THEN "root"
  ELSE IF rq.pos < waterfallRestartOn THEN "below"
  ELSE IF rq.pos = waterfallRestartOn THEN "nth"
  ELSE "later"

\* What a hook that attached server v leaves in bindings.
Attached(rq, v) ==
  [kind |-> Kind(rq), id |-> serverIdMap[v], same |-> (v = rq.captured),
   unsettled |-> rq.unsettled]

\* A hook in flight, told from the others in flight that agree with it on
\* every field by the least tag none of them has.
Tagged(rq) ==
  [rq EXCEPT !.tag = CHOOSE d \in 0..MaxWArrivals :
                       /\ [rq EXCEPT !.tag = d] \notin wreqs
                       /\ \A e \in 0..(d - 1) : [rq EXCEPT !.tag = e] \in wreqs]

\* The requests waiting in ssrLoadModule for a build of their own.
LoadingW == {rq \in wreqs : rq.pc = "loading"}

\* `myWaterfallPosition == waterfallRestartOn` (line 102).
Triggers(pos) == pos = waterfallRestartOn

\* `myWaterfallPosition >= waterfallRestartOn || restartWasAlreadyInProgress`
ShouldUseNewServer_Off(pos, inProgress) == pos > waterfallRestartOn \/ inProgress

ShouldUseNewServer(pos, inProgress) == pos >= waterfallRestartOn \/ inProgress

\* The server a request that awaited `restarting` attaches (line 116).
ServerAfterRestart(rq) == viteServer

\* A request for a url other than "/" enters the hook: lines 70-73 and 97-124
\* up to the first await that does not settle at once.
ArriveW ==
  /\ nArrivedW < MaxWArrivals
  /\ LET pos   == waterfallCounter + 1
         inPr  == restarting # NULL
         start == Triggers(pos)
         rs    == IF start THEN nRestarts + 1 ELSE restarting
         pend  == rs # NULL /\ (start \/ PromiseStateW(rs) = "pending")
         rq    == [tag |-> 0, root |-> FALSE, pos |-> pos, pc |-> "new",
                   captured |-> viteServer, awaiting |-> NULL,
                   server |-> NULL, unsettled |-> pend]
         new   == ShouldUseNewServer(pos, inPr) /\ rs # NULL
         v     == IF new THEN ServerAfterRestart(rq) ELSE rq.captured
     IN /\ start => nRestarts + 1 \in RestartIds
        /\ ~buildCacheW[viteServer] => Cardinality(LoadingW) < MaxLoading
        /\ nArrivedW' = nArrivedW + 1
        /\ waterfallCounter' = pos
        /\ restarting' = rs
        /\ nRestarts' = IF start THEN nRestarts + 1 ELSE nRestarts
        /\ restarts' = IF start
                         THEN [restarts EXCEPT ![nRestarts + 1].pc = "getPorts"]
                         ELSE restarts
        /\ IF new /\ pend
             THEN /\ wreqs' = wreqs \cup {Tagged([rq EXCEPT !.pc = "awaitRestart",
                                                            !.awaiting = rs])}
                  /\ UNCHANGED bindings
             ELSE IF new /\ PromiseStateW(rs) = "rejected"
                    THEN UNCHANGED <<wreqs, bindings>>
                    ELSE IF buildCacheW[v]
                           THEN /\ bindings' = bindings \cup {Attached(rq, v)}
                                /\ UNCHANGED wreqs
                           ELSE /\ wreqs' = wreqs \cup {Tagged([rq EXCEPT !.pc = "loading",
                                                                          !.server = v])}
                                /\ UNCHANGED bindings
  /\ UNCHANGED <<viteServer, buildCacheW, idCounterW, serverIdMap, nCold>>
  /\ UNCHANGED vars2

\* A request for "/" enters the hook: lines 70-85 up to the await of fs.stat.
ArriveRootW ==
  /\ nArrivedW < MaxWArrivals
  /\ nCold < MaxColdStarts
  /\ nCold' = nCold + 1
  /\ nArrivedW' = nArrivedW + 1
  /\ wreqs' = wreqs \cup {Tagged([tag |-> 0, root |-> TRUE, pos |-> 0,
                                  pc |-> "coldStat", captured |-> viteServer,
                                  awaiting |-> NULL, server |-> NULL,
                                  unsettled |-> FALSE])}
  /\ UNCHANGED <<viteServer, buildCacheW, idCounterW, serverIdMap, restarting,
                 waterfallCounter, restarts, nRestarts, bindings>>
  /\ UNCHANGED vars2

\* The cache directory is stat'ed and removed (76-85); `await restartVite()`
\* (87) starts a body.
ColdStartW(rq) ==
  /\ rq.pc = "coldStat"
  /\ nRestarts + 1 \in RestartIds
  /\ nRestarts' = nRestarts + 1
  /\ restarts' = [restarts EXCEPT ![nRestarts + 1].pc = "getPorts"]
  /\ wreqs' = (wreqs \ {rq}) \cup {[rq EXCEPT !.pc = "awaitCold",
                                              !.awaiting = nRestarts + 1]}
  /\ UNCHANGED <<viteServer, buildCacheW, idCounterW, serverIdMap, restarting,
                 waterfallCounter, nArrivedW, nCold, bindings>>
  /\ UNCHANGED vars2

\* Both getPort() calls resolved (39-42); createServer is called.
RestartGetPortsW(k) ==
  /\ restarts[k].pc = "getPorts"
  /\ restarts' = [restarts EXCEPT ![k].pc = "createServer"]
  /\ UNCHANGED <<viteServer, buildCacheW, idCounterW, serverIdMap, restarting,
                 waterfallCounter, nRestarts, wreqs, nArrivedW, nCold, bindings>>
  /\ UNCHANGED vars2

\* createServer resolved: lines 56-61 up to the await inside getServerBuild.
RestartCreateServerW(k) ==
  /\ restarts[k].pc = "createServer"
  /\ LET h == Len(serverIdMap) + 1
     IN /\ idCounterW' = idCounterW + 1
        /\ serverIdMap' = Append(serverIdMap, idCounterW + 1)
        /\ viteServer' = h
        /\ restarts' = [restarts EXCEPT ![k].pc = "loadBuild", ![k].newServer = h]
  /\ UNCHANGED <<buildCacheW, restarting, waterfallCounter, nRestarts, wreqs,
                 nArrivedW, nCold, bindings>>
  /\ UNCHANGED vars2

\* The requests whose hook awaits the promise of body k (line 87 or 115).
AwaitersW(k) ==
  {rq \in wreqs : rq.pc \in {"awaitRestart", "awaitCold"} /\ rq.awaiting = k}

\* getPort, createServer or ssrLoadModule rejected: the body throws, and so
\* does every hook awaiting its promise.
RestartFailW(k) ==
  /\ restarts[k].pc \in {"getPorts", "createServer", "loadBuild"}
  /\ restarts' = [restarts EXCEPT ![k].pc = "failed"]
  /\ wreqs' = wreqs \ AwaitersW(k)
  /\ UNCHANGED <<viteServer, buildCacheW, idCounterW, serverIdMap, restarting,
                 waterfallCounter, nRestarts, nArrivedW, nCold, bindings>>
  /\ UNCHANGED vars2

\* ssrLoadModule resolved: the build is cached (32) and the body returns.
\* The hooks awaiting its promise go on as promise jobs: a "/" request resets
\* the counter and `restarting` (88-89) and attaches vite.server (92-93); the
\* others attach vite.server (116-117).
RestartLoadBuildW(k) ==
  /\ restarts[k].pc = "loadBuild"
  /\ LET cache == [buildCacheW EXCEPT ![restarts[k].newServer] = TRUE]
         cold  == \E rq \in AwaitersW(k) : rq.root
         v(rq) == IF rq.root THEN viteServer ELSE ServerAfterRestart(rq)
     IN /\ buildCacheW' = cache
        /\ restarts' = [restarts EXCEPT ![k].pc = "done"]
        /\ waterfallCounter' = IF cold THEN 0 ELSE waterfallCounter
        /\ restarting' = IF cold THEN NULL ELSE restarting
        /\ wreqs' = (wreqs \ AwaitersW(k))
                      \cup {[rq EXCEPT !.pc = "loading", !.server = v(rq)] :
                              rq \in {x \in AwaitersW(k) : ~cache[v(x)]}}
        /\ bindings' = bindings
                      \cup {Attached(rq, v(rq)) :
                              rq \in {x \in AwaitersW(k) : cache[v(x)]}}
  /\ UNCHANGED <<viteServer, idCounterW, serverIdMap, nRestarts, nArrivedW, nCold>>
  /\ UNCHANGED vars2

\* getServerBuild's cache miss for a request: ssrLoadModule resolved (31-33).
RequestLoadDoneW(rq) ==
  /\ rq.pc = "loading"
  /\ buildCacheW' = [buildCacheW EXCEPT ![rq.server] = TRUE]
  /\ wreqs' = wreqs \ {rq}
  /\ bindings' = bindings \cup {Attached(rq, rq.server)}
  /\ UNCHANGED <<viteServer, idCounterW, serverIdMap, restarting,
                 waterfallCounter, restarts, nRestarts, nArrivedW, nCold>>
  /\ UNCHANGED vars2

NextW ==
  \/ ArriveW
  \/ ArriveRootW
  \/ \E rq \in wreqs : ColdStartW(rq)
  \/ \E k \in RestartIds : RestartGetPortsW(k)
  \/ \E k \in RestartIds : RestartCreateServerW(k)
  \/ \E k \in RestartIds : RestartLoadBuildW(k)
  \/ \E k \in RestartIds : RestartFailW(k)
  \/ \E rq \in wreqs : RequestLoadDoneW(rq)

SpecW == Init /\ [][NextW]_vars

-----------------------------------------------------------------------------
\* Properties.

HeldReqs == {pendingHttpRequests[i] : i \in DOMAIN pendingHttpRequests}
HeldConns == {pendingWsConnections[i] : i \in DOMAIN pendingWsConnections}
Running == {s \in SwapIds : swaps[s].pc \notin {"idle", "done", "failed"}}
Failed == {s \in SwapIds : swaps[s].pc = "failed"}

\* C1: in fault-free fair runs every request that entered the hook is
\* eventually bound to a server and build, and every held connection is
\* eventually resumed.
C1_ZeroDropped ==
  /\ \A r \in Reqs : (reqs[r].pc # "new") ~> (reqs[r].pc \in {"bound", "finished"})
  /\ \A c \in Conns : (conns[c].pc = "held") ~> (conns[c].pc # "held")

\* C2: a restartVite call made while a body is in flight starts nothing and
\* leaves restartPromise as it is; at most one body runs at a time; a body
\* activates at most one server, and exactly one once it has finished; the
\* servers created are as many as the bodies started, less the one body that
\* has not come to createServer (in flight or failed).
C2_TriggersCollapse ==
  /\ [](/\ Cardinality(Running) <= 1
        /\ \A s \in SwapIds :
             /\ swaps[s].activations <= 1
             /\ swaps[s].pc = "done" => swaps[s].activations = 1
        /\ serverIdCounter = Len(servers)
        /\ Len(servers) = Cardinality({s \in SwapIds : swaps[s].newServer # NULL})
        /\ Len(servers) \in {nSwaps - 1, nSwaps}
        /\ (Running = {} /\ Failed = {}) => Len(servers) = nSwaps)
  /\ [][collapsedCalls' # collapsedCalls =>
          /\ restartPromise # NULL
          /\ restartPromise' = restartPromise
          /\ nSwaps' = nSwaps
          /\ servers' = servers]_vars

C2_Witness ==
  /\ collapsedCalls > 0
  /\ nSwaps = 1
  /\ swaps[1].pc = "done"
  /\ Len(servers) = 1

\* C3: a request or connection that was held is bound, once resumed, to a
\* server (port) other than the one that was active when its hold began.
C3_HeldBoundToOther ==
  /\ \A r \in Reqs :
       (reqs[r].wasHeld /\ reqs[r].pc \in {"bound", "finished"})
         => reqs[r].server # reqs[r].heldActive
  /\ \A c \in Conns :
       (conns[c].wasHeld /\ conns[c].target # NULL)
         => conns[c].target # conns[c].heldPort

\* C4: with no "/" request in play, a request whose waterfall position is
\* below waterfallRestartOn never waits and attaches server #1, the server
\* that was active when it came in; the request at waterfallRestartOn and the
\* later ones attach server #2.
C4_WaterfallBinding ==
  nCold = 0 =>
    /\ \A rq \in wreqs : rq.pos >= waterfallRestartOn /\ rq.pc = "awaitRestart"
    /\ \A b \in bindings :
         /\ b.kind = "below" => (b.id = 1 /\ b.same)
         /\ b.kind \in {"nth", "later"} => b.id = 2

C4_Witness ==
  /\ nCold = 0
  /\ [kind |-> "below", id |-> 1, same |-> TRUE, unsettled |-> FALSE] \in bindings
  /\ [kind |-> "nth", id |-> 2, same |-> FALSE, unsettled |-> TRUE] \in bindings
  /\ [kind |-> "later", id |-> 2, same |-> FALSE, unsettled |-> TRUE] \in bindings

\* C5: once a body has asked for the teardown of the old server, no request
\* or connection held during that body is left in a hold queue.
C5_DrainedBeforeTeardown ==
  \A s \in SwapIds :
    (swaps[s].oldServer # NULL /\ swaps[s].pc \in {"closing", "done"})
      => /\ \A r \in HeldReqs : reqs[r].heldSwap # s
         /\ \A c \in HeldConns : conns[c].heldSwap # s

\* C6: after a body failed in getPort or createServer, the active server, the
\* active HMR port and the id counter are what they were when it started, its
\* promise is rejected and so is every hook that awaited it.
C6_ProvisionFailure ==
  \A s \in SwapIds :
    (swaps[s].pc = "failed" /\ swaps[s].newServer = NULL)
      => /\ activeVite = swaps[s].oldServer
         /\ activeHmrPort = swaps[s].oldHmrPort
         /\ serverIdCounter = swaps[s].oldServerId
         /\ Len(servers) = swaps[s].oldServerId
         /\ PromiseState(s) = "rejected"
         /\ \A r \in Reqs : reqs[r].awaiting = s => reqs[r].pc = "error"

C6_Witness ==
  \E s \in SwapIds :
    /\ swaps[s].pc = "failed"
    /\ swaps[s].newServer = NULL
    /\ swaps[s].hmrPort # NULL
    /\ swaps[s].oldServer # NULL
    /\ activeVite = swaps[s].oldServer

\* C7: after a body failed, no swap is in flight (restartPromise is null).
C7_FailedSwapRetryable == Failed # {} => restartPromise = NULL

\* C8: for a held connection whose client went away, no outbound connection
\* is ever attempted.
C8_GoneHoldNeverProxied ==
  \A c \in Conns : conns[c].goneWhileHeld => conns[c].tsock = "none"

\* C9: while restartPromise is null both hold queues are empty.
C9_NoSwapNoHolds ==
  restartPromise = NULL => (pendingHttpRequests = <<>> /\ pendingWsConnections = <<>>)

\* C10: server ids grow strictly in creation order, and the active server is
\* always the newest server created, the one holding the current id.
C10_OneActiveIncreasingIds ==
  /\ \A h, k \in DOMAIN servers : h < k => servers[h].id < servers[k].id
  /\ activeVite = Len(servers)
  /\ Cardinality({h \in DOMAIN servers : h = activeVite}) <= 1
  /\ activeVite # NULL => servers[activeVite].id = serverIdCounter

C10_Witness ==
  /\ Len(servers) = 2
  /\ activeVite = 2
  /\ servers[1].id = 1
  /\ servers[2].id = 2

\* C11: a connection that was proxied never has one of its two sockets down
\* (closed, errored or destroyed) while the other is still connecting or open.
C11_TunnelFailFast ==
  \A c \in Conns :
    conns[c].target # NULL
      => /\ conns[c].client # "open" => conns[c].tsock = "destroyed"
         /\ conns[c].tsock = "destroyed" => conns[c].client # "open"

\* C12: activeVite, once set, is never null again, whatever later bodies do;
\* every request that came to the binding step attached a server, and a hook
\* that ended in an error is one whose ensureFirstServer promise rejected.
C12_ActiveNeverNullAgain ==
  /\ [][activeVite # NULL => activeVite' # NULL]_vars
  /\ [](\A r \in Reqs :
          /\ reqs[r].pc \in {"loading", "bound", "finished"} => reqs[r].server # NULL
          /\ reqs[r].pc = "error"
               => /\ reqs[r].awaiting # NULL
                  /\ swaps[reqs[r].awaiting].pc = "failed")

C12_Witness ==
  /\ activeVite = 1
  /\ Len(servers) = 1
  /\ \E s \in Failed : swaps[s].oldServer = 1
  /\ \E r \in Reqs : reqs[r].pc \in {"bound", "finished"} /\ reqs[r].server = 1

\* C13: whenever activeVite is set, serverBuildCache holds the build of that
\* server.
C13_ActiveHasArtifact ==
  activeVite # NULL => serverBuildCache[activeVite] # NULL

\* C14: after a body failed in loading the build of its new server, the active
\* server and the active HMR port are those of the old server.
C14_LoadFailureKeepsOld ==
  \A s \in SwapIds :
    (swaps[s].pc = "failed" /\ swaps[s].newServer # NULL)
      => /\ activeVite = swaps[s].oldServer
         /\ activeHmrPort = swaps[s].oldHmrPort

\* C15: a body whose oldServer.close() threw has finished all the same: its
\* promise is resolved, restartPromise is null, its new server is the active
\* one, and the old server is no longer referenced: it is not active, it has
\* no cache entry, and it is not open.
C15_TeardownFailureCompletes ==
  \A s \in SwapIds :
    swaps[s].closeThrew
      => /\ PromiseState(s) = "resolved"
         /\ restartPromise = NULL
         /\ activeVite = swaps[s].newServer
         /\ activeHmrPort = swaps[s].hmrPort
         /\ activeVite # swaps[s].oldServer
         /\ serverBuildCache[swaps[s].oldServer] = NULL
         /\ servers[swaps[s].oldServer].status = "closeFailed"

C15_Witness ==
  \E s \in SwapIds :
    /\ swaps[s].closeThrew
    /\ swaps[s].pc = "done"
    /\ serverBuildCache[swaps[s].newServer] # NULL

\* C16: a cache entry, once set, is only ever left alone or removed; it is
\* removed in the step that asks for the close of its server; a server that
\* is no longer open has no cache entry, so none is created again.
C16_CacheLifecycle ==
  /\ [](\A h \in DOMAIN servers :
          servers[h].status # "open" => serverBuildCache[h] = NULL)
  /\ [][\A h \in SwapIds :
          serverBuildCache[h] # NULL
            => \/ serverBuildCache'[h] = serverBuildCache[h]
               \/ /\ serverBuildCache'[h] = NULL
                  /\ servers[h].status = "open"
                  /\ servers'[h].status = "closing"]_vars

C16_Witness ==
  /\ Len(servers) = 2
  /\ servers[1].status = "closed"
  /\ serverBuildCache[1] = NULL
  /\ serverBuildCache[2] # NULL

\* C17: the step that asks for the close of the old server can be taken as
\* soon as the build of the new server is loaded, whatever requests are in
\* flight; it empties both hold queues and leaves every request that is being
\* served by the old server as it is, attached to that server.
C17_TeardownNotGatedOnInFlight ==
  /\ [](\A s \in SwapIds : swaps[s].pc = "loadBuild" => ENABLED SwapLoadBuild(s))
  /\ [][\A s \in SwapIds :
          (swaps[s].pc = "loadBuild" /\ swaps'[s].pc = "closing")
            => /\ servers'[swaps[s].oldServer].status = "closing"
               /\ pendingHttpRequests' = <<>>
               /\ pendingWsConnections' = <<>>
               /\ \A r \in Reqs :
                    (reqs[r].pc = "bound" /\ reqs[r].server = swaps[s].oldServer)
                      => reqs'[r] = reqs[r]]_vars

C17_Witness ==
  \E s \in SwapIds, r \in Reqs :
    /\ swaps[s].pc = "closing"
    /\ servers[swaps[s].oldServer].status = "closing"
    /\ reqs[r].pc = "bound"
    /\ ~reqs[r].wasHeld
    /\ reqs[r].server = swaps[s].oldServer

\* C18: hasTriggeredRestart, once true, stays true; the request that sets it
\* is held in the same step, on the body in flight if there is one (no body
\* is started then) and on the body it starts otherwise; a held request is
\* resumed only by the flush of the body it is held on; no run starts more
\* than two bodies, and a second one only by the trigger.
C18_TriggerOnce ==
  /\ [](nSwaps <= 2 /\ (nSwaps = 2 => hasTriggeredRestart))
  /\ [][hasTriggeredRestart => hasTriggeredRestart']_vars
  /\ [][hasTriggeredRestart' # hasTriggeredRestart
          => /\ restartPromise' # NULL
             /\ restartPromise # NULL
                  => (restartPromise' = restartPromise /\ nSwaps' = nSwaps)
             /\ restartPromise = NULL => nSwaps' = nSwaps + 1
             /\ \E r \in Reqs :
                  /\ reqs[r].pc = "new"
                  /\ reqs'[r].pc = "held"
                  /\ reqs'[r].heldSwap = restartPromise'
                  /\ pendingHttpRequests' = Append(pendingHttpRequests, r)]_vars
  /\ [][\A r \in Reqs :
          (reqs[r].pc = "held" /\ reqs'[r] # reqs[r])
            => /\ swaps[reqs[r].heldSwap].pc = "loadBuild"
               /\ swaps'[reqs[r].heldSwap].pc \in {"closing", "done"}]_vars

C18_Witness ==
  /\ hasTriggeredRestart
  /\ collapsedCalls = 1
  /\ nSwaps = 1
  /\ swaps[1].pc \notin {"done", "failed"}
  /\ \E r \in HeldReqs : reqs[r].heldSwap = 1

\* C19: the server a request attaches is, in the step that attaches it, the
\* active server, and that server is open; the active server is always open.
C19_BoundToActiveOpen ==
  /\ [](activeVite # NULL => servers[activeVite].status = "open")
  /\ [][\A r \in Reqs :
          (reqs[r].server = NULL /\ reqs'[r].server # NULL)
            => /\ reqs'[r].server = activeVite'
               /\ servers'[reqs'[r].server].status = "open"]_vars

C19_Witness ==
  \E r \in Reqs :
    /\ reqs[r].wasHeld
    /\ reqs[r].pc = "bound"
    /\ reqs[r].server = 2
    /\ activeVite = 2
    /\ servers[1].status = "closing"

\* C20: a connection that came to the proxying step with activeHmrPort null
\* is closed with its client socket destroyed and no outbound socket made;
\* the step in which an upgrade comes in starts no body and leaves
\* restartPromise, initialServerPromise and activeVite as they are.
C20_UpgradeWithNoPort ==
  /\ [](\A c \in Conns :
          (conns[c].pc \notin {"new", "held"} /\ conns[c].target = NULL)
            => /\ conns[c].pc = "closed"
               /\ conns[c].client = "destroyed"
               /\ conns[c].tsock = "none")
  /\ [][\A c \in Conns :
          (conns[c].pc = "new" /\ conns'[c].pc # "new")
            => /\ nSwaps' = nSwaps
               /\ swaps' = swaps
               /\ restartPromise' = restartPromise
               /\ initialServerPromise' = initialServerPromise
               /\ activeVite' = activeVite]_vars

C20_Witness ==
  \E c \in Conns :
    /\ conns[c].pc = "closed"
    /\ conns[c].target = NULL
    /\ conns[c].client = "destroyed"
    /\ conns[c].tsock = "none"
    /\ nSwaps = 0
    /\ activeVite = NULL

====
